---- MODULE Spec2Model ----
(***************************************************************************)
(* A model of compose.py: the image pool (ImageData), the augmentation     *)
(* and placement pipeline (Transformation) and the sample orchestrator     *)
(* (ImageMaker).                                                           *)
(*                                                                         *)
(* Two specifications share the module:                                    *)
(*   SpecGenerate   ImageData.__init__ followed by ImageMaker.generate     *)
(*   SpecTransform  Transformation.transform and post_transform on one     *)
(*                  foreground and one background                          *)
(* Strings of the program are sequences of one-character strings, so that  *)
(* the substring test of class_from_subdir and the ordering of sorted()    *)
(* are computed and not assumed.                                           *)
(***************************************************************************)
EXTENDS Integers, Sequences, FiniteSets, TLC

VARIABLES
    \* ---- ImageData / ImageMaker (SpecGenerate)
    fs,               \* the foreground directory on disk: listing order of its
                      \* subdirectories, the files of each, its own files
    subdir_is_class,  \* options.get('subdir_is_class')
    flat,             \* what load_images returned for the foregrounds
    images,           \* ImageData.images after __init__
    backgrounds,      \* ImageData.backgrounds
    num_samples,      \* ImageMaker.num_samples
    pc,               \* position in __init__ / generate
    classes,          \* the local list `classes` of generate
    it,               \* index held by the iterator of `for class_ in classes`
    out_dirs,         \* classes whose directory exists under output_dir
    written,          \* the writes of save(), in order
    err,              \* the exception that ended the run, or NoErr
    \* ---- Transformation (SpecTransform)
    tpc,              \* the next step of transform / post_transform
    self_image,       \* Transformation.image
    background,       \* the background object opened by generate
    background0,      \* its pixels as opened (history)
    cropped_axis,     \* what edge_crop returned for return_which_cropped
    flip_draw,        \* <<the value self.random gave the flip step just taken>> (history)
    applied,          \* the backend operations performed so far (history)
    resize_req,       \* the draws of resize (history)
    paste_at          \* offset and size of the image pasted (history)

genVars == <<fs, subdir_is_class, flat, images, backgrounds, num_samples, pc,
             classes, it, out_dirs, written, err>>

tfmVars == <<tpc, self_image, background, background0, cropped_axis, flip_draw,
             applied, resize_req, paste_at>>

vars == <<genVars, tfmVars>>

----------------------------------------------------------------------------
(* Bounds of the model *)

MaxSamples == 2

----------------------------------------------------------------------------
(* Strings *)

None == [kind |-> "None"]
NoErr == "NoErr"
EmptyStr == << >>

\* ord() of the characters the model uses
CharCode(ch) ==
    CASE ch = "." -> 46
      [] ch = "/" -> 47
      [] ch = "G" -> 71
      [] ch = "N" -> 78
      [] ch = "P" -> 80
      [] ch = "a" -> 97
      [] ch = "b" -> 98
      [] ch = "c" -> 99
      [] ch = "d" -> 100
      [] ch = "g" -> 103
      [] ch = "i" -> 105
      [] ch = "n" -> 110
      [] ch = "p" -> 112
      [] ch = "t" -> 116
      [] ch = "x" -> 120

\* str.lower() on one character
LowerChar(ch) ==
    CASE ch = "G" -> "g"
      [] ch = "N" -> "n"
      [] ch = "P" -> "p"
      [] OTHER -> ch

Lower(s) == [k \in 1..Len(s) |-> LowerChar(s[k])]

\* a < b for Python strings (lexicographic on code points)
RECURSIVE StrLess(_, _)
StrLess(a, b) ==
    IF b = << >> THEN FALSE
    ELSE IF a = << >> THEN TRUE
    ELSE IF CharCode(a[1]) # CharCode(b[1]) THEN CharCode(a[1]) < CharCode(b[1])
    ELSE StrLess(Tail(a), Tail(b))

\* `pat in s` for Python strings
Contains(s, pat) ==
    \E k \in 1..(Len(s) - Len(pat) + 1) : SubSeq(s, k, k + Len(pat) - 1) = pat

\* os.path.join(a, b) for a relative b
Join(a, b) ==
    IF a = << >> THEN b
    ELSE IF a[Len(a)] = "/" THEN a \o b
    ELSE a \o <<"/">> \o b

\* name.split('.')[-1]
RECURSIVE LastPart(_)
LastPart(name) ==
    IF \A k \in 1..Len(name) : name[k] # "." THEN name
    ELSE LastPart(Tail(name))

\* os.path.split(path)[-1]
RECURSIVE BaseName(_)
BaseName(path) ==
    IF \A k \in 1..Len(path) : path[k] # "/" THEN path
    ELSE BaseName(Tail(path))

\* sorted(list) for a list of strings
RECURSIVE InsertSorted(_, _)
InsertSorted(x, s) ==
    IF s = << >> THEN <<x>>
    ELSE IF StrLess(x, s[1]) THEN <<x>> \o s
    ELSE <<s[1]>> \o InsertSorted(x, Tail(s))

RECURSIVE Sorted(_)
Sorted(s) ==
    IF s = << >> THEN << >> ELSE InsertSorted(s[1], Sorted(Tail(s)))

\* list.remove(x): the first occurrence goes
RECURSIVE Remove(_, _)
Remove(s, x) ==
    IF s = << >> THEN << >>
    ELSE IF s[1] = x THEN Tail(s)
    ELSE <<s[1]>> \o Remove(Tail(s), x)

Elems(s) == {s[k] : k \in 1..Len(s)}

----------------------------------------------------------------------------
(* The files the model puts on disk *)

ImagesDir == <<"i">>                         \* 'images'
ClassC == <<"c">>
ClassDC == <<"d", "c">>
ClassNames == {ClassC, ClassDC}
FileA == <<"a", ".", "p", "n", "g">>
FileB == <<"b", ".", "P", "N", "G">>
FileT == <<"n", ".", "t", "x", "t">>
\* os.listdir of a directory's files, in a fixed order
FileLists == {<< >>, <<FileA>>, <<FileB, FileT>>}
TopLists == {<< >>, <<FileA>>}
SubdirOrders == {<< >>, <<ClassC>>, <<ClassDC>>, <<ClassC, ClassDC>>, <<ClassDC, ClassC>>}
BackgroundLists == {<< >>, <<"bg1">>}

\* utils.IMG_EXTENSIONS
IMG_EXTENSIONS == {<<"j", "p", "g">>, <<"j", "p", "e", "g">>, <<"p", "n", "g">>}

----------------------------------------------------------------------------
(* ImageData *)

check_if_img(name) == Lower(LastPart(name)) \in IMG_EXTENSIONS

\* [os.path.join(dir, f) for f in files if self.check_if_img(f)]
RECURSIVE ImagesIn(_, _)
ImagesIn(dir, files) ==
    IF files = << >> THEN << >>
    ELSE IF check_if_img(files[1])
         THEN <<Join(dir, files[1])>> \o ImagesIn(dir, Tail(files))
         ELSE ImagesIn(dir, Tail(files))

RECURSIVE SubdirImages(_, _, _)
SubdirImages(directory, order, d) ==
    IF order = << >> THEN << >>
    ELSE ImagesIn(Join(directory, order[1]), d.sub[order[1]])
         \o SubdirImages(directory, Tail(order), d)

load_from_directory(directory, d) ==
    SubdirImages(directory, d.order, d) \o ImagesIn(directory, d.top)

\* the inner `for class_ in data.keys()` of class_from_subdir: the first key,
\* other than '', whose name followed by the separator occurs in the path,
\* or '' when the loop ends without a break
RECURSIVE FirstMatch(_, _)
FirstMatch(image, keys) ==
    IF keys = << >> THEN EmptyStr
    ELSE IF keys[1] = EmptyStr THEN FirstMatch(image, Tail(keys))
    ELSE IF Contains(image, Join(keys[1], EmptyStr)) THEN keys[1]
    ELSE FirstMatch(image, Tail(keys))

\* the same loop without its break: every matching key
AllMatches(image, keys) ==
    {keys[k] : k \in {j \in 1..Len(keys) :
                        /\ keys[j] # EmptyStr
                        /\ Contains(image, Join(keys[j], EmptyStr))}}

\* the buckets an image is appended to
BucketsOfNoBreak(image, keys) ==
    IF AllMatches(image, keys) = {} THEN {EmptyStr} ELSE AllMatches(image, keys)

BucketsOf(image, keys) == {FirstMatch(image, keys)}

RECURSIVE AppendAll(_, _, _)
AppendAll(imgs, keys, vals) ==
    IF imgs = << >> THEN vals
    ELSE AppendAll(Tail(imgs), keys,
                   [c \in DOMAIN vals |->
                       IF c \in BucketsOf(imgs[1], keys)
                       THEN Append(vals[c], imgs[1]) ELSE vals[c]])

\* the dict `data`: its keys in insertion order and the list of each
class_from_subdir(d, imgs) ==
    LET keys == <<EmptyStr>> \o d.order
    IN  [kind |-> "dict", keys |-> keys,
         vals |-> AppendAll(imgs, keys, [c \in Elems(keys) |-> << >>])]

separate_classes(opt, d, imgs) ==
    IF opt THEN class_from_subdir(d, imgs) ELSE None

----------------------------------------------------------------------------
(* Images: a size, the pixels <<value, alpha>> at (column, row) counted    *)
(* from 0, and the backend operations that produced the raster.            *)

MaxPix == 255

Grid(w, h) == (0..(w - 1)) \X (0..(h - 1))

NoImage == [w |-> 0, h |-> 0, px |-> [p \in {} |-> <<0, 0>>], ops |-> << >>]

Via(img, op) == Append(img.ops, op)

\* Image.transpose(Image.FLIP_LEFT_RIGHT)
FlipLeftRight(img) ==
    [img EXCEPT !.px = [p \in Grid(img.w, img.h) |-> img.px[<<img.w - 1 - p[1], p[2]>>]],
                !.ops = Via(img, "FLIP_LEFT_RIGHT")]

\* Image.transpose(Image.FLIP_TOP_BOTTOM)
FlipTopBottom(img) ==
    [img EXCEPT !.px = [p \in Grid(img.w, img.h) |-> img.px[<<p[1], img.h - 1 - p[2]>>]],
                !.ops = Via(img, "FLIP_TOP_BOTTOM")]

\* Image.rotate(angle, expand=True) for the right angles: a copy, or the
\* transpose ROTATE_90 (counter-clockwise) or ROTATE_270
RotateExpand(img, angle) ==
    IF angle = 0
    THEN [img EXCEPT !.ops = Via(img, "rotate")]
    ELSE [w |-> img.h, h |-> img.w,
          px |-> [p \in Grid(img.h, img.w) |->
                    IF angle = 90
                    THEN img.px[<<img.w - 1 - p[2], p[1]>>]
                    ELSE img.px[<<p[2], img.h - 1 - p[1]>>]],
          ops |-> Via(img, "rotate")]

\* ImageFilter.BLUR: a 5x5 kernel of sixteen ones on its rim, divided by 16;
\* the filter copies the pixels nearer than two to an edge
BlurRim == {d \in (-2..2) \X (-2..2) : d[1] \in {-2, 2} \/ d[2] \in {-2, 2}}

RECURSIVE SumOver(_, _, _, _)
SumOver(img, p, ch, ds) ==
    IF ds = {} THEN 0
    ELSE LET d == CHOOSE e \in ds : TRUE
         IN  img.px[<<p[1] + d[1], p[2] + d[2]>>][ch] + SumOver(img, p, ch, ds \ {d})

BlurFilter(img) ==
    [img EXCEPT !.px = [p \in Grid(img.w, img.h) |->
                          IF /\ p[1] >= 2 /\ p[1] <= img.w - 3
                             /\ p[2] >= 2 /\ p[2] <= img.h - 3
                          THEN <<SumOver(img, p, 1, BlurRim) \div 16,
                                 SumOver(img, p, 2, BlurRim) \div 16>>
                          ELSE img.px[p]],
                !.ops = Via(img, "BLUR")]

\* Image.crop((left, top, right, bottom))
Crop(img, left, top, right, bottom) ==
    [w |-> right - left, h |-> bottom - top,
     px |-> [p \in Grid(right - left, bottom - top) |-> img.px[<<p[1] + left, p[2] + top>>]],
     ops |-> Via(img, "crop")]

\* the raster of Image.resize([nw, nh]): each pixel sampled at its centre
Resample(img, nw, nh) ==
    [p \in Grid(nw, nh) |->
        img.px[<<((2 * p[1] + 1) * img.w) \div (2 * nw),
                 ((2 * p[2] + 1) * img.h) \div (2 * nh)>>]]

Resized(img, nw, nh) ==
    [w |-> nw, h |-> nh, px |-> Resample(img, nw, nh), ops |-> Via(img, "resize")]

Max(a, b) == IF a > b THEN a ELSE b

\* the size Image.thumbnail([nw, nh]) gives the image: an axis above its
\* target is cut to it and the other scaled with it, never below 1
ThumbnailSize(w, h, nw, nh) ==
    LET x1 == IF w > nw THEN nw ELSE w
        y1 == IF w > nw THEN Max((h * nw) \div w, 1) ELSE h
        x2 == IF y1 > nh THEN Max((x1 * nh) \div y1, 1) ELSE x1
        y2 == IF y1 > nh THEN nh ELSE y1
    IN  <<x2, y2>>

\* Image.thumbnail: resizes the object itself
Thumbnail(img, nw, nh) ==
    LET sz == ThumbnailSize(img.w, img.h, nw, nh)
    IN  IF sz = <<img.w, img.h>>
        THEN [img EXCEPT !.ops = Via(img, "thumbnail")]
        ELSE [w |-> sz[1], h |-> sz[2], px |-> Resample(img, sz[1], sz[2]),
              ops |-> Via(img, "thumbnail")]

\* one channel of Image.paste(..., mask): the mask's alpha weighs the two
BlendMask(under, over, alpha) ==
    (under * (MaxPix - alpha) + over * alpha) \div MaxPix

InBox(p, x, y, w, h) ==
    /\ p[1] >= x /\ p[1] < x + w
    /\ p[2] >= y /\ p[2] < y + h

PasteMasked(bg, img, x, y) ==
    [p \in Grid(bg.w, bg.h) |->
        IF InBox(p, x, y, img.w, img.h)
        THEN LET f == img.px[<<p[1] - x, p[2] - y>>]
             IN  <<BlendMask(bg.px[p][1], f[1], f[2]), BlendMask(bg.px[p][2], f[2], f[2])>>
        ELSE bg.px[p]]

PasteUnmasked(bg, img, x, y) ==
    [p \in Grid(bg.w, bg.h) |->
        IF InBox(p, x, y, img.w, img.h)
        THEN img.px[<<p[1] - x, p[2] - y>>]
        ELSE bg.px[p]]

\* background.paste(image, (x, y), mask=image): the pixels of the background
Paste(bg, img, x, y) == PasteMasked(bg, img, x, y)

\* Image.blend(degenerate, image, factor) on one channel, factor in hundredths
BlendFactor(deg, v, factor) ==
    LET t == 100 * deg + factor * (v - deg)
    IN  IF t <= 0 THEN 0
        ELSE IF t >= 100 * MaxPix THEN MaxPix
        ELSE t \div 100

RECURSIVE SumValues(_, _)
SumValues(img, ps) ==
    IF ps = {} THEN 0
    ELSE LET p == CHOOSE q \in ps : TRUE
         IN  img.px[p][1] + SumValues(img, ps \ {p})

\* int(ImageStat.Stat(image.convert("L")).mean[0] + 0.5)
MeanValue(img) ==
    LET n == img.w * img.h
    IN  (2 * SumValues(img, Grid(img.w, img.h)) + n) \div (2 * n)

\* ImageEnhance.Brightness(image).enhance(factor): against black, the alpha
\* of the image kept
EnhanceBrightness(img, factor) ==
    [img EXCEPT !.px = [p \in Grid(img.w, img.h) |->
                          <<BlendFactor(0, img.px[p][1], factor), img.px[p][2]>>],
                !.ops = Via(img, "Brightness")]

\* ImageEnhance.Contrast(image).enhance(factor): against the mean grey
EnhanceContrast(img, factor) ==
    [img EXCEPT !.px = [p \in Grid(img.w, img.h) |->
                          <<BlendFactor(MeanValue(img), img.px[p][1], factor), img.px[p][2]>>],
                !.ops = Via(img, "Contrast")]

Enhance(func, img, factor) ==
    IF func = "Brightness" THEN EnhanceBrightness(img, factor)
    ELSE EnhanceContrast(img, factor)

----------------------------------------------------------------------------
(* Transformation: the values of reset_tfms, probabilities and fractions   *)
(* in hundredths                                                           *)

can_flip == TRUE
can_flip_vertical == TRUE
prob_flip == 50
max_rotate == 90
max_lighting == 60
lighting_prob == 40
can_blur == TRUE
prob_blur == 5
min_coverage == 95
max_coverage == 99
can_edge_crop == TRUE
edge_crop_prob == 30
max_edge_crop == 50
min_edge_crop == 0
can_stretch == TRUE
stretch_prob == 40

\* values of random.random(), in hundredths: one on each side of every
\* threshold the code compares a draw with, and the thresholds 0 and 50
Draws == {0, 25, 35, 45, 50, 75}
\* the draw that scales max_lighting in change_lighting
PctDraws == {50}
\* the angles of rotate that the model turns by
Angles == {-90, 0, 90}
\* the threshold of the coin flips `self.random > 0.5` and `self.random < 0.5`
Half == 50

\* int(fraction * extent) for a fraction in hundredths
IntOf(hundredths, extent) == (hundredths * extent) \div 100

\* random_int(x, y): what random.randint may return
random_int(x, y) == IF x > y THEN y..x ELSE x..y

\* the opened images: Image.open(...).convert('RGBA')
Raster(w, h, base, holes) ==
    [w |-> w, h |-> h,
     px |-> [p \in Grid(w, h) |->
               IF p \in holes THEN <<0, 0>> ELSE <<base + 10 * p[1] + 40 * p[2], MaxPix>>],
     ops |-> << >>]

Foregrounds == {Raster(4, 4, 100, {<<0, 0>>, <<3, 3>>}),
                Raster(3, 2, 100, {<<1, 0>>}),
                Raster(1, 2, 100, {})}
Backgrounds == {Raster(4, 4, 20, {}), Raster(2, 3, 20, {}), Raster(3, 3, 20, {})}

NoDraw == << >>
NoPaste == [x |-> 0, y |-> 0, image |-> NoImage, pasted |-> FALSE]
NoResize == [stretch |-> FALSE, new_width |-> 0, new_height |-> 0, drawn |-> FALSE]

TfmIdle ==
    /\ tpc = "idle"
    /\ self_image = NoImage
    /\ background = NoImage
    /\ background0 = NoImage
    /\ cropped_axis = <<FALSE, FALSE, FALSE, FALSE>>
    /\ flip_draw = NoDraw
    /\ applied = << >>
    /\ resize_req = NoResize
    /\ paste_at = NoPaste

----------------------------------------------------------------------------
(* ImageMaker.generate *)

TypeDirs == {[order |-> o, sub |-> s, top |-> t] :
                o \in SubdirOrders, s \in [ClassNames -> FileLists], t \in TopLists}

\* a subdirectory that is not listed has no files
WellFormedDir(d) == \A c \in ClassNames : c \notin Elems(d.order) => d.sub[c] = << >>

\* output_dir is missing, or exists with some of the class directories
OutDirStates == {S \in SUBSET ({EmptyStr} \cup ClassNames) : S # {} => EmptyStr \in S}

InitGenerate ==
    /\ fs \in {d \in TypeDirs : WellFormedDir(d)}
    /\ subdir_is_class \in BOOLEAN
    /\ flat = << >>
    /\ images = None
    /\ backgrounds \in BackgroundLists
    /\ num_samples \in 0..MaxSamples
    /\ pc = "new"
    /\ classes = << >>
    /\ it = 0
    /\ out_dirs \in OutDirStates
    /\ written = << >>
    /\ err = NoErr
    /\ TfmIdle

\* ImageData('images', 'background', ...): load_images, then separate_classes
\* overwrites self.images with what it returns
Construct ==
    /\ pc = "new"
    /\ flat' = load_from_directory(ImagesDir, fs)
    /\ images' = separate_classes(subdir_is_class, fs, flat')
    /\ pc' = "constructed"
    /\ UNCHANGED tfmVars
    /\ UNCHANGED <<fs, subdir_is_class, backgrounds, num_samples, classes, it,
                   out_dirs, written, err>>

\* classes = sorted(list(self.data.images.keys()))
GenerateStart ==
    /\ pc = "constructed"
    /\ IF images.kind = "None"
       THEN /\ err' = "AttributeError"
            /\ pc' = "error"
            /\ UNCHANGED classes
       ELSE /\ classes' = Sorted(images.keys)
            /\ pc' = "prepare"
            /\ UNCHANGED err
    /\ it' = 0
    /\ UNCHANGED tfmVars
    /\ UNCHANGED <<fs, subdir_is_class, flat, images, backgrounds, num_samples,
                   out_dirs, written>>

\* one iteration of `for class_ in classes`: the list iterator yields
\* classes[it] and advances, whatever the body does to the list
PrepareStep ==
    /\ pc = "prepare"
    /\ it < Len(classes)
    /\ LET class_ == classes[it + 1]
       IN  /\ IF class_ # EmptyStr /\ EmptyStr \notin out_dirs
              THEN /\ err' = "FileNotFoundError"
                   /\ pc' = "error"
                   /\ UNCHANGED <<out_dirs, classes>>
              ELSE /\ out_dirs' = out_dirs \cup {class_}
                   /\ classes' = IF images.vals[class_] = << >>
                                 THEN Remove(classes, class_) ELSE classes
                   /\ UNCHANGED <<err, pc>>
    /\ it' = it + 1
    /\ UNCHANGED tfmVars
    /\ UNCHANGED <<fs, subdir_is_class, flat, images, backgrounds, num_samples,
                   written>>

\* the iterator is exhausted
PrepareEnd ==
    /\ pc = "prepare"
    /\ it >= Len(classes)
    /\ pc' = "sample"
    /\ UNCHANGED tfmVars
    /\ UNCHANGED <<fs, subdir_is_class, flat, images, backgrounds, num_samples,
                   classes, it, out_dirs, written, err>>

Raise(e) ==
    /\ err' = e
    /\ pc' = "error"
    /\ UNCHANGED written

\* one iteration of the sample loop; the pipeline it runs on the opened
\* images is SpecTransform's
SampleStep ==
    /\ pc = "sample"
    /\ Len(written) < num_samples
    /\ IF classes = << >>
       THEN Raise("IndexError")
       ELSE \E class_ \in Elems(classes) :
              IF images.vals[class_] = << >>
              THEN Raise("IndexError")
              ELSE \E image_location \in Elems(images.vals[class_]) :
                     IF backgrounds = << >>
                     THEN Raise("IndexError")
                     ELSE IF class_ \notin out_dirs
                     THEN Raise("FileNotFoundError")
                     ELSE /\ written' = Append(written,
                                   [dir |-> class_, src |-> image_location,
                                    name |-> BaseName(image_location)])
                          /\ UNCHANGED <<err, pc>>
    /\ UNCHANGED tfmVars
    /\ UNCHANGED <<fs, subdir_is_class, flat, images, backgrounds, num_samples,
                   classes, it, out_dirs>>

SampleEnd ==
    /\ pc = "sample"
    /\ Len(written) >= num_samples
    /\ pc' = "done"
    /\ UNCHANGED tfmVars
    /\ UNCHANGED <<fs, subdir_is_class, flat, images, backgrounds, num_samples,
                   classes, it, out_dirs, written, err>>

NextGenerate ==
    \/ Construct
    \/ GenerateStart
    \/ PrepareStep
    \/ PrepareEnd
    \/ SampleStep
    \/ SampleEnd

SpecGenerate == InitGenerate /\ [][NextGenerate]_vars

----------------------------------------------------------------------------
(* Transformation.transform and post_transform, as generate calls them *)

GenIdle ==
    /\ fs = [order |-> << >>, sub |-> [c \in ClassNames |-> << >>], top |-> << >>]
    /\ subdir_is_class = TRUE
    /\ flat = << >>
    /\ images = None
    /\ backgrounds = << >>
    /\ num_samples = 0
    /\ pc = "sample"
    /\ classes = << >>
    /\ it = 0
    /\ out_dirs = {}
    /\ written = << >>
    /\ err = NoErr

\* image = Image.open(image_location).convert('RGBA'); transform sets
\* self.image = image
InitTransform ==
    /\ GenIdle
    /\ tpc = "flip"
    /\ self_image \in Foregrounds
    /\ background = NoImage
    /\ background0 = NoImage
    /\ cropped_axis = <<FALSE, FALSE, FALSE, FALSE>>
    /\ flip_draw = NoDraw
    /\ applied = << >>
    /\ resize_req = NoResize
    /\ paste_at = NoPaste

\* whether flip's condition holds for the draw r
FlipFires(r) == can_flip /\ r < prob_flip

\* whether flip_vertical's condition holds for the draw r
FlipVerticalFires(r) == can_flip /\ can_flip_vertical /\ r > prob_flip

flip ==
    /\ tpc = "flip"
    /\ \E r \in Draws :
          /\ flip_draw' = <<r>>
          /\ IF FlipFires(r)
             THEN /\ self_image' = FlipLeftRight(self_image)
                  /\ applied' = Append(applied, "FLIP_LEFT_RIGHT")
             ELSE UNCHANGED <<self_image, applied>>
    /\ tpc' = "flip_vertical"
    /\ UNCHANGED <<background, background0, cropped_axis, resize_req, paste_at>>
    /\ UNCHANGED genVars

flip_vertical ==
    /\ tpc = "flip_vertical"
    /\ \E r \in Draws :
          /\ flip_draw' = <<r>>
          /\ IF FlipVerticalFires(r)
             THEN /\ self_image' = FlipTopBottom(self_image)
                  /\ applied' = Append(applied, "FLIP_TOP_BOTTOM")
             ELSE UNCHANGED <<self_image, applied>>
    /\ tpc' = "rotate"
    /\ UNCHANGED <<background, background0, cropped_axis, resize_req, paste_at>>
    /\ UNCHANGED genVars

rotate ==
    /\ tpc = "rotate"
    /\ \E angle \in random_int(-max_rotate, max_rotate) \cap Angles :
          self_image' = RotateExpand(self_image, angle)
    /\ applied' = Append(applied, "rotate")
    /\ flip_draw' = NoDraw
    /\ tpc' = "blur"
    /\ UNCHANGED <<background, background0, cropped_axis, resize_req, paste_at>>
    /\ UNCHANGED genVars

blur ==
    /\ tpc = "blur"
    /\ \E r \in Draws :
          IF can_blur /\ r < prob_blur
          THEN /\ self_image' = BlurFilter(self_image)
               /\ applied' = Append(applied, "BLUR")
          ELSE UNCHANGED <<self_image, applied>>
    /\ tpc' = "open_background"
    /\ UNCHANGED <<background, background0, cropped_axis, flip_draw, resize_req, paste_at>>
    /\ UNCHANGED genVars

\* background = Image.open(bg_location).convert('RGBA'); post_transform sets
\* self.image = image and self.background = background
open_background ==
    /\ tpc = "open_background"
    /\ background' \in Backgrounds
    /\ background0' = background'
    /\ tpc' = "edge_crop"
    /\ UNCHANGED <<self_image, cropped_axis, flip_draw, applied, resize_req, paste_at>>
    /\ UNCHANGED genVars

\* lines 150-155 (and 156-161) of edge_crop on an axis of extent n: the
\* <<leading, trailing>> edges after the draws r1, amt_crop and r2
AxisCrop(n, r1, amt_crop, r2) ==
    IF r1 < edge_crop_prob
    THEN (IF r2 > Half THEN <<amt_crop, n>> ELSE <<0, n - amt_crop>>)
    ELSE <<0, n>>

AxisCrops(n) ==
    {AxisCrop(n, r1, amt_crop, r2) :
        r1 \in Draws, r2 \in Draws,
        amt_crop \in random_int(IntOf(min_edge_crop, n), IntOf(max_edge_crop, n))}

\* the tuple edge_crop returns with the image
WhichCropped(left, top, right, bottom, w, h) ==
    <<left # 0, top # 0, right # w, bottom # h>>

edge_crop ==
    /\ tpc = "edge_crop"
    /\ can_edge_crop
    /\ LET w == self_image.w
           h == self_image.h
       IN  \E cx \in AxisCrops(w), cy \in AxisCrops(h) :
              LET left == cx[1]
                  right == cx[2]
                  top == cy[1]
                  bottom == cy[2]
              IN  /\ self_image' = Crop(self_image, left, top, right, bottom)
                  /\ cropped_axis' = WhichCropped(left, top, right, bottom, w, h)
    /\ applied' = Append(applied, "crop")
    /\ tpc' = "resize"
    /\ UNCHANGED <<background, background0, flip_draw, resize_req, paste_at>>
    /\ UNCHANGED genVars

\* the object self.image names when resize returns. In the stretch branch
\* self.image is first bound to the resized copy; line 176 then binds it to
\* `image`, which thumbnail has resized in place in the other branch only.
ImageAfterResize(image, stretch, new_width, new_height) ==
    LET self_image_173 == Resized(image, new_width, new_height)
        image_175 == IF stretch THEN image ELSE Thumbnail(image, new_width, new_height)
    IN  image_175

resize ==
    /\ tpc = "resize"
    /\ LET canvas_size == <<background.w, background.h>>
           min_width == IntOf(min_coverage, canvas_size[1])
           min_height == IntOf(min_coverage, canvas_size[2])
           max_width == IntOf(max_coverage, canvas_size[1])
           max_height == IntOf(max_coverage, canvas_size[2])
       IN  \E new_width \in random_int(min_width, max_width),
              new_height \in random_int(min_height, max_height),
              stretch \in {can_stretch /\ r < stretch_prob : r \in Draws} :
                  /\ self_image' = ImageAfterResize(self_image, stretch, new_width, new_height)
                  /\ applied' = Append(applied, IF stretch THEN "resize" ELSE "thumbnail")
                  /\ resize_req' = [stretch |-> stretch, new_width |-> new_width,
                                    new_height |-> new_height, drawn |-> TRUE]
    /\ tpc' = "superimpose"
    /\ UNCHANGED <<background, background0, cropped_axis, flip_draw, paste_at>>
    /\ UNCHANGED genVars

\* lines 196-199: an offset of superimpose after the overrides; `random` is
\* the offset drawn at line 195, lead and trail the where_info of the axis
AnchorSwapped(lead, trail, options, random) ==
    IF lead \/ trail THEN (IF lead THEN options ELSE 0) ELSE random

Anchor(lead, trail, options, random) ==
    IF lead \/ trail THEN (IF trail THEN options ELSE 0) ELSE random

superimpose ==
    /\ tpc = "superimpose"
    /\ LET image == self_image
           where_info == cropped_axis
           x_options == background.w - image.w
           y_options == background.h - image.h
       IN  \E x0 \in random_int(0, x_options), y0 \in random_int(0, y_options) :
              LET x == Anchor(where_info[1], where_info[3], x_options, x0)
                  y == Anchor(where_info[2], where_info[4], y_options, y0)
              IN  /\ background' = [background EXCEPT
                                      !.px = Paste(background, image, x, y),
                                      !.ops = Via(image, "paste")]
                  /\ self_image' = background'
                  /\ paste_at' = [x |-> x, y |-> y, image |-> image, pasted |-> TRUE]
    /\ applied' = Append(applied, "paste")
    /\ tpc' = "brighten"
    /\ UNCHANGED <<background0, cropped_axis, flip_draw, resize_req>>
    /\ UNCHANGED genVars

\* lines 180-183 of change_lighting: whether the enhancer is applied, and
\* the factor (in hundredths) it is applied with
LightingDraw(r1, r2, r3) ==
    LET pct == IntOf(max_lighting, r2)
    IN  [fires |-> r1 < lighting_prob,
         factor |-> IF r1 < lighting_prob
                    THEN (IF r3 < Half THEN 100 + pct ELSE 100 - pct)
                    ELSE 100]

LightingDraws == {LightingDraw(r1, r2, r3) : r1 \in Draws, r2 \in PctDraws, r3 \in Draws}

\* change_lighting(self.image, func)
change_lighting(func) ==
    /\ \E d \in LightingDraws :
          IF d.fires
          THEN /\ self_image' = Enhance(func, self_image, d.factor)
               /\ applied' = Append(applied, func)
          ELSE UNCHANGED <<self_image, applied>>
    /\ UNCHANGED <<background, background0, cropped_axis, flip_draw, resize_req, paste_at>>
    /\ UNCHANGED genVars

brighten ==
    /\ tpc = "brighten"
    /\ change_lighting("Brightness")
    /\ tpc' = "contrast"

\* post_transform returns self.image
contrast ==
    /\ tpc = "contrast"
    /\ change_lighting("Contrast")
    /\ tpc' = "returned"

NextTransform ==
    \/ flip
    \/ flip_vertical
    \/ rotate
    \/ blur
    \/ open_background
    \/ edge_crop
    \/ resize
    \/ superimpose
    \/ brighten
    \/ contrast

SpecTransform == InitTransform /\ [][NextTransform]_vars

----------------------------------------------------------------------------
(* Claims about ImageData and ImageMaker.generate, under SpecGenerate *)

Constructed == pc # "new"
Buckets == DOMAIN images.vals
BucketSet(c) == Elems(images.vals[c])
MatchesSomeSubdir(img) ==
    \E c \in Elems(fs.order) : Contains(img, Join(c, EmptyStr))

\* C7 (bucket completeness): once ImageData is built with subdir_is_class,
\* every discovered image is in exactly one bucket and once in it, the union
\* of the buckets is the discovered set, and the '' bucket holds exactly the
\* images that match no subdirectory name.
C7_BucketCompleteness ==
    (Constructed /\ subdir_is_class) =>
        /\ \A img \in Elems(flat) :
              Cardinality({c \in Buckets : img \in BucketSet(c)}) = 1
        /\ UNION {BucketSet(c) : c \in Buckets} = Elems(flat)
        /\ \A c \in Buckets : Cardinality(BucketSet(c)) = Len(images.vals[c])
        /\ \A img \in Elems(flat) :
              (img \in BucketSet(EmptyStr)) <=> ~MatchesSomeSubdir(img)

\* C7's case: buckets built from a directory where one image matches two
\* subdirectory names, one image matches none, and two named buckets exist
C7_Witness ==
    /\ pc = "constructed"
    /\ subdir_is_class
    /\ \E img \in Elems(flat) :
          Cardinality({c \in Elems(fs.order) : Contains(img, Join(c, EmptyStr))}) = 2
    /\ BucketSet(EmptyStr) # {}
    /\ \E c \in Buckets : c # EmptyStr /\ BucketSet(c) # {}

\* C2 (PrepareOutputDirs): when the preparation loop has finished, the
\* directory of every non-empty class bucket exists.
C2_PrepareOutputDirs ==
    pc = "sample" =>
        \A c \in Buckets : images.vals[c] # << >> => c \in out_dirs

\* C3 (empty buckets pruned): when the preparation loop has finished, the
\* list the sample loop draws from holds no class whose bucket is empty.
C3_EmptyBucketsPruned ==
    pc = "sample" =>
        \A c \in Elems(classes) : images.vals[c] # << >>

\* C4 (run completion): with class bucketing active, a non-empty bucket and a
\* non-empty background pool, the run raises nothing, and at Done it has made
\* exactly num_samples writes, each of an image of the class whose existing
\* directory it is written under.
C4_RunCompletion ==
    (/\ Constructed
     /\ subdir_is_class
     /\ \E c \in Buckets : images.vals[c] # << >>
     /\ backgrounds # << >>) =>
        /\ pc # "error"
        /\ pc = "done" =>
              /\ Len(written) = num_samples
              /\ \A k \in 1..Len(written) :
                    /\ written[k].dir \in out_dirs
                    /\ written[k].src \in BucketSet(written[k].dir)

\* C8 (sampling without class bucketing): built without subdir_is_class from
\* non-empty pools, ImageData.images is the flat collection of all
\* foregrounds, generate raises nothing and at Done it has made num_samples
\* writes.
C8_FlatPoolSampling ==
    (/\ Constructed
     /\ ~subdir_is_class
     /\ flat # << >>
     /\ backgrounds # << >>) =>
        /\ images.kind # "None"
        /\ pc # "error"
        /\ pc = "done" => Len(written) = num_samples

----------------------------------------------------------------------------
(* Claims about Transformation, under SpecTransform *)

Pasted == paste_at.pasted
Foreground == paste_at.image
XOptions == background.w - Foreground.w
YOptions == background.h - Foreground.h

\* C1 (edge anchor): once superimpose has pasted, a left mark of the crop
\* record means a horizontal offset of 0, a right mark an offset of
\* background width - foreground width, a top mark a vertical offset of 0, a
\* bottom mark an offset of background height - foreground height; with no
\* mark on an axis the offset is a draw of random_int(0, options).
C1_EdgeAnchor ==
    Pasted =>
        /\ cropped_axis[1] => paste_at.x = 0
        /\ cropped_axis[3] => paste_at.x = XOptions
        /\ cropped_axis[2] => paste_at.y = 0
        /\ cropped_axis[4] => paste_at.y = YOptions
        /\ (~cropped_axis[1] /\ ~cropped_axis[3]) => paste_at.x \in random_int(0, XOptions)
        /\ (~cropped_axis[2] /\ ~cropped_axis[4]) => paste_at.y \in random_int(0, YOptions)

\* C1's case: a paste after a crop that trimmed the right and the top edge,
\* with room to place the foreground elsewhere
C1_Witness ==
    /\ Pasted
    /\ cropped_axis[3]
    /\ cropped_axis[2]
    /\ XOptions > 0
    /\ YOptions > 0
    /\ paste_at.x = XOptions
    /\ paste_at.y = 0

InForeground(p) == InBox(p, paste_at.x, paste_at.y, Foreground.w, Foreground.h)

\* every pixel outside the placed foreground's box is the opened background's
OutsideBoxUnchanged(img) ==
    \A p \in Grid(img.w, img.h) :
        ~InForeground(p) => img.px[p] = background0.px[p]

\* a pixel that differs from the opened background lies under a foreground
\* pixel that is not transparent
OnlyUnderOpaque(img) ==
    \A p \in Grid(img.w, img.h) :
        img.px[p] # background0.px[p] =>
            /\ InForeground(p)
            /\ Foreground.px[<<p[1] - paste_at.x, p[2] - paste_at.y>>][2] # 0

LightingApplied == "Brightness" \in Elems(applied) \/ "Contrast" \in Elems(applied)

\* C5 as claimed (alpha mask): in the sample post_transform returns, whatever
\* the draws, the pixels outside the placed foreground's box are the
\* background's and only pixels under opaque foreground pixels differ.
C5_AlphaMask ==
    tpc = "returned" =>
        /\ OutsideBoxUnchanged(self_image)
        /\ OnlyUnderOpaque(self_image)

\* C5 as amended: the same of the composite superimpose produces, and of the
\* returned sample when neither brightness nor contrast was applied (they
\* enhance the whole composite).
C5_AlphaMaskBeforeLighting ==
    (Pasted /\ ~LightingApplied) =>
        /\ OutsideBoxUnchanged(self_image)
        /\ OnlyUnderOpaque(self_image)

\* C5's case: a returned sample without lighting, with a background pixel
\* outside the box, one under a transparent foreground pixel and one
\* overwritten
C5_Witness ==
    /\ tpc = "returned"
    /\ ~LightingApplied
    /\ \E p \in Grid(self_image.w, self_image.h) : ~InForeground(p)
    /\ \E p \in Grid(self_image.w, self_image.h) :
          /\ InForeground(p)
          /\ Foreground.px[<<p[1] - paste_at.x, p[2] - paste_at.y>>][2] = 0
    /\ \E p \in Grid(self_image.w, self_image.h) : self_image.px[p] # background0.px[p]

\* C6 (coverage bound, the upper half of it): the pasted foreground's width
\* is at most max_coverage of the background's width, its height at most
\* max_coverage of the background's height, and so the foreground exceeds the
\* background on neither axis: the placement ranges are not negative.
C6_CoverageBound ==
    Pasted =>
        /\ 100 * Foreground.w <= max_coverage * background.w
        /\ 100 * Foreground.h <= max_coverage * background.h
        /\ XOptions >= 0
        /\ YOptions >= 0

\* the place of a backend operation in the fixed order of the steps
StepRank(op) ==
    CASE op = "FLIP_LEFT_RIGHT" -> 1
      [] op = "FLIP_TOP_BOTTOM" -> 2
      [] op = "rotate" -> 3
      [] op = "BLUR" -> 4
      [] op = "crop" -> 5
      [] op \in {"resize", "thumbnail"} -> 6
      [] op = "paste" -> 7
      [] op = "Brightness" -> 8
      [] op = "Contrast" -> 9

\* C9 (fixed order, threaded results): the operations are applied in the
\* fixed order, the image each step is handed is the product of every
\* operation applied before it, and after the stretch branch the image handed
\* to placement has the drawn (new_width, new_height).
C9_ThreadedResults ==
    /\ \A k \in 1..(Len(applied) - 1) : StepRank(applied[k]) < StepRank(applied[k + 1])
    /\ self_image.ops = applied
    /\ (tpc = "superimpose" /\ resize_req.stretch) =>
          /\ self_image.w = resize_req.new_width
          /\ self_image.h = resize_req.new_height

\* C10 (vertical flip rule): each flip is applied exactly when its own draw
\* is below prob_flip (and flipping is enabled).
C10_VerticalFlipRule ==
    /\ tpc = "flip_vertical" =>
          ("FLIP_LEFT_RIGHT" \in Elems(applied) <=> (can_flip /\ flip_draw[1] < prob_flip))
    /\ tpc = "rotate" =>
          ("FLIP_TOP_BOTTOM" \in Elems(applied) <=> (can_flip /\ flip_draw[1] < prob_flip))

====
